---- MODULE Spec2Model ----
(***************************************************************************)
(* A model of go-sops: the env program (src/env/main.go) and the YAML      *)
(* program (src/unnamed/part_001).                                         *)
(*                                                                         *)
(* A Go string is modelled as the sequence of its bytes, each byte a       *)
(* one-character TLA+ string, so that len, slicing, trimming, upper-casing *)
(* and substring search are computed as the code computes them.            *)
(***************************************************************************)
EXTENDS Integers, Sequences, FiniteSets, TLC

VARIABLES
    prog,           \* which program runs: "env", "yaml", or a pure-function harness
    pc,             \* position of the program in main and in the function it called
    file,           \* plaintext that `sops -d` yields for the encrypted file (lines)
    parsed,         \* what the document parser yields for that plaintext
    decryptedData,  \* local of the running load function
    tmpFile,        \* the temp file of LoadSOPSEnv: NoFile or its content
    config,         \* the record returned by the load function, or Nil
    err,            \* the error returned by the load function, or Nil
    env,            \* the process environment table: name -> value
    lineNo,         \* lines the bufio.Scanner of LoadSOPSEnvToSystem has consumed
    out,            \* standard output: the formatted field values, in order
    calls,          \* the external calls made so far and how each ended, in order
    arg,            \* pure-function harness: the input
    ret             \* pure-function harness: Nil, or Some(result)

vars == <<prog, pc, file, parsed, decryptedData, tmpFile, config, err, env,
          lineNo, out, calls, arg, ret>>

\* Option values: the empty sequence, or Some(x) == <<x>>
Nil == <<>>         \* a nil pointer, a nil error
NoFile == <<>>      \* the temp file does not exist

-----------------------------------------------------------------------------
(* Bounds of the model *)

MaxLen == 6         \* longest string given to maskSecret by the harness
MaxNameLen == 3     \* longest generated name given to isSecret by the harness
MaxLines == 2       \* most lines in a decrypted document
MaxEntries == 1     \* most entries in a parsed map

-----------------------------------------------------------------------------
(* The strings of the program *)

DB_HOST == <<"D", "B", "_", "H", "O", "S", "T">>
DB_PORT == <<"D", "B", "_", "P", "O", "R", "T">>
DB_NAME == <<"D", "B", "_", "N", "A", "M", "E">>
DB_USER == <<"D", "B", "_", "U", "S", "E", "R">>
DB_PASSWORD == <<"D", "B", "_", "P", "A", "S", "S", "W", "O", "R", "D">>
DB_MAX_CONNECTIONS == <<"D", "B", "_", "M", "A", "X", "_", "C", "O", "N", "N", "E", "C", "T", "I", "O", "N", "S">>
REDIS_URL == <<"R", "E", "D", "I", "S", "_", "U", "R", "L">>
REDIS_PASSWORD == <<"R", "E", "D", "I", "S", "_", "P", "A", "S", "S", "W", "O", "R", "D">>
JWT_SECRET == <<"J", "W", "T", "_", "S", "E", "C", "R", "E", "T">>
API_KEY == <<"A", "P", "I", "_", "K", "E", "Y">>
STRIPE_SECRET_KEY == <<"S", "T", "R", "I", "P", "E", "_", "S", "E", "C", "R", "E", "T", "_", "K", "E", "Y">>
SENDGRID_API_KEY == <<"S", "E", "N", "D", "G", "R", "I", "D", "_", "A", "P", "I", "_", "K", "E", "Y">>
GOOGLE_CLIENT_ID == <<"G", "O", "O", "G", "L", "E", "_", "C", "L", "I", "E", "N", "T", "_", "I", "D">>
GOOGLE_CLIENT_SECRET == <<"G", "O", "O", "G", "L", "E", "_", "C", "L", "I", "E", "N", "T", "_", "S", "E", "C", "R", "E", "T">>
GITHUB_CLIENT_ID == <<"G", "I", "T", "H", "U", "B", "_", "C", "L", "I", "E", "N", "T", "_", "I", "D">>
GITHUB_CLIENT_SECRET == <<"G", "I", "T", "H", "U", "B", "_", "C", "L", "I", "E", "N", "T", "_", "S", "E", "C", "R", "E", "T">>
WEBHOOK_URL == <<"W", "E", "B", "H", "O", "O", "K", "_", "U", "R", "L">>
NOTIFICATION_SERVICE_URL == <<"N", "O", "T", "I", "F", "I", "C", "A", "T", "I", "O", "N", "_", "S", "E", "R", "V", "I", "C", "E", "_", "U", "R", "L">>
ENVIRONMENT == <<"E", "N", "V", "I", "R", "O", "N", "M", "E", "N", "T">>
DEBUG == <<"D", "E", "B", "U", "G">>
LOG_LEVEL == <<"L", "O", "G", "_", "L", "E", "V", "E", "L">>
ENCRYPTION_KEY == <<"E", "N", "C", "R", "Y", "P", "T", "I", "O", "N", "_", "K", "E", "Y">>
SIGNING_KEY == <<"S", "I", "G", "N", "I", "N", "G", "_", "K", "E", "Y">>

\* The allowlist of PrintSystemEnvVars, in its order.
ourVars ==
    << DB_HOST, DB_PORT, DB_NAME, DB_USER, DB_PASSWORD, DB_MAX_CONNECTIONS,
       REDIS_URL, REDIS_PASSWORD,
       JWT_SECRET, API_KEY, STRIPE_SECRET_KEY, SENDGRID_API_KEY,
       GOOGLE_CLIENT_ID, GOOGLE_CLIENT_SECRET, GITHUB_CLIENT_ID, GITHUB_CLIENT_SECRET,
       WEBHOOK_URL, NOTIFICATION_SERVICE_URL,
       ENVIRONMENT, DEBUG, LOG_LEVEL,
       ENCRYPTION_KEY, SIGNING_KEY >>

\* The markers of isSecret, in its order.
secretVars ==
    << <<"P", "A", "S", "S", "W", "O", "R", "D">>,
       <<"S", "E", "C", "R", "E", "T">>,
       <<"K", "E", "Y">>,
       <<"T", "O", "K", "E", "N">>,
       <<"C", "R", "E", "D", "E", "N", "T", "I", "A", "L">>,
       <<"P", "R", "I", "V", "A", "T", "E">> >>

-----------------------------------------------------------------------------
(* The string functions of the Go library that the code calls *)

Range(f) == {f[i] : i \in DOMAIN f}

LowerLetters ==
    <<"a", "b", "c", "d", "e", "f", "g", "h", "i", "j", "k", "l", "m",
      "n", "o", "p", "q", "r", "s", "t", "u", "v", "w", "x", "y", "z">>

UpperLetters ==
    <<"A", "B", "C", "D", "E", "F", "G", "H", "I", "J", "K", "L", "M",
      "N", "O", "P", "Q", "R", "S", "T", "U", "V", "W", "X", "Y", "Z">>

\* strings.Repeat(c, n)
Repeat(c, n) == [i \in 1..n |-> c]

\* strings.ToUpper, on one byte and on a string
ToUpperByte(c) ==
    IF \E i \in DOMAIN LowerLetters : LowerLetters[i] = c
    THEN UpperLetters[CHOOSE i \in DOMAIN LowerLetters : LowerLetters[i] = c]
    ELSE c

ToUpper(str) == [i \in 1..Len(str) |-> ToUpperByte(str[i])]

\* strings.Contains(str, substr)
Contains(str, substr) ==
    \E i \in 0..(Len(str) - Len(substr)) :
        SubSeq(str, i + 1, i + Len(substr)) = substr

\* strings.HasPrefix(str, prefix)
HasPrefix(str, prefix) ==
    /\ Len(str) >= Len(prefix)
    /\ SubSeq(str, 1, Len(prefix)) = prefix

\* unicode.IsSpace on the bytes of the model
IsSpace(c) == c \in {" ", "\t", "\r"}

\* strings.TrimSpace(str)
RECURSIVE TrimLeft(_)
TrimLeft(str) ==
    IF str # <<>> /\ IsSpace(Head(str)) THEN TrimLeft(Tail(str)) ELSE str

RECURSIVE TrimRight(_)
TrimRight(str) ==
    IF str # <<>> /\ IsSpace(str[Len(str)])
    THEN TrimRight(SubSeq(str, 1, Len(str) - 1))
    ELSE str

TrimSpace(str) == TrimRight(TrimLeft(str))

\* strings.SplitN(str, "=", 2): one part when str holds no "=", else the text
\* before the first "=" and the text after it
SplitN2(str) ==
    IF \E i \in 1..Len(str) : str[i] = "="
    THEN LET i == CHOOSE j \in 1..Len(str) :
                      /\ str[j] = "="
                      /\ \A k \in 1..(j - 1) : str[k] # "="
         IN  << SubSeq(str, 1, i - 1), SubSeq(str, i + 1, Len(str)) >>
    ELSE << str >>

-----------------------------------------------------------------------------
(* maskSecret and isSecret *)

\* maskSecret with "<" for "<=" in its test
maskSecret_lt4(value) ==
    IF Len(value) < 4
    THEN Repeat("*", Len(value))
    ELSE SubSeq(value, 1, 2) \o Repeat("*", Len(value) - 4)
             \o SubSeq(value, Len(value) - 1, Len(value))

\* maskSecret keeping one byte too many at the end
maskSecret_last3(value) ==
    IF Len(value) <= 4
    THEN Repeat("*", Len(value))
    ELSE SubSeq(value, 1, 2) \o Repeat("*", Len(value) - 5)
             \o SubSeq(value, Len(value) - 2, Len(value))

\* maskSecret with a run of "*" two bytes too long
maskSecret_twoMoreStars(value) ==
    IF Len(value) <= 4
    THEN Repeat("*", Len(value))
    ELSE SubSeq(value, 1, 2) \o Repeat("*", Len(value) - 2)
             \o SubSeq(value, Len(value) - 1, Len(value))

maskSecret(value) ==
    IF Len(value) <= 4
    THEN Repeat("*", Len(value))
    ELSE SubSeq(value, 1, 2) \o Repeat("*", Len(value) - 4)
             \o SubSeq(value, Len(value) - 1, Len(value))

\* the loop of isSecret over secretVars from index i, with its early return
RECURSIVE isSecretLoop(_, _)
isSecretLoop(upper, i) ==
    IF i > Len(secretVars) THEN FALSE
    ELSE IF Contains(upper, secretVars[i]) THEN TRUE
    ELSE isSecretLoop(upper, i + 1)

\* isSecret without the call of strings.ToUpper
isSecret_caseSensitive(varName) == isSecretLoop(varName, 1)

isSecret(varName) == isSecretLoop(ToUpper(varName), 1)

-----------------------------------------------------------------------------
(* Values of the model: option values, errors, output lines *)

Some(x) == <<x>>

\* an error: the text of fmt.Errorf, the key it names, the error it wraps,
\* and the pieces of the document that the wrapped error's text quotes
Error(msg, key, cause) == [msg |-> msg, key |-> key, cause |-> cause, quoted |-> <<>>]

\* fmt.Errorf("...: %w", err) around the error of a parser
Wrap(msg, cause, quoted) == [msg |-> msg, key |-> <<>>, cause |-> cause, quoted |-> quoted]

\* one formatted value written to standard output by function fn for field name
Line(fn, name, text) == [fn |-> fn, name |-> name, text |-> text]

-----------------------------------------------------------------------------
(* The process environment: os.Setenv and os.Getenv *)

NUL == "NUL"                        \* the zero byte

\* one byte of the model that stands for a run of MaxScanTokenSize bytes "x"
LongRun == "x...x"

MaxScanTokenSize == 64 * 1024       \* bufio.MaxScanTokenSize

RECURSIVE ByteLen(_)
ByteLen(str) ==
    IF str = <<>> THEN 0
    ELSE (IF Head(str) = LongRun THEN MaxScanTokenSize ELSE 1) + ByteLen(Tail(str))

\* bufio.Scanner gives up (ErrTooLong) on a line that fills its whole buffer
TooLong(raw) == ByteLen(raw) >= MaxScanTokenSize

\* os.Setenv rejects (EINVAL) an empty name, a name holding "=" or a zero
\* byte, and a value holding a zero byte
SetenvFails(key, value) ==
    \/ Len(key) = 0
    \/ \E i \in 1..Len(key) : key[i] = "=" \/ key[i] = NUL
    \/ \E i \in 1..Len(value) : value[i] = NUL

\* os.Setenv that sets the variables of the allowlist only
Setenv_ourVarsOnly(e, key, value) ==
    IF \E i \in DOMAIN ourVars : ourVars[i] = key
    THEN [n \in (DOMAIN e) \cup {key} |-> IF n = key THEN value ELSE e[n]]
    ELSE e

\* os.Setenv on a table cleared first
Setenv_clearsOthers(e, key, value) == [n \in {key} |-> value]

\* os.Setenv that leaves a variable that is already set as it is
Setenv_noOverwrite(e, key, value) ==
    [n \in (DOMAIN e) \cup {key} |-> IF n \in DOMAIN e THEN e[n] ELSE value]

Setenv(e, key, value) ==
    [n \in (DOMAIN e) \cup {key} |-> IF n = key THEN value ELSE e[n]]

\* os.Getenv: the value, or "" when the variable is not set
Getenv(e, name) == IF name \in DOMAIN e THEN e[name] ELSE <<>>

\* the struct literal with DBUser read from envMap["DB_NAME"]
Lookup_wrongKey(envMap, key) ==
    LET k == IF key = DB_USER THEN DB_NAME ELSE key
    IN  IF k \in DOMAIN envMap THEN envMap[k] ELSE <<>>

\* envMap[key] of a Go map: the value, or "" when the key is absent
Lookup(envMap, key) == IF key \in DOMAIN envMap THEN envMap[key] ELSE <<>>

-----------------------------------------------------------------------------
(* The env program: src/env/main.go *)

\* the deferred os.Remove(tmpFile.Name()): the file is gone when the call
\* succeeds and stays when it fails; the error it returns is dropped
Remove(f, removed) == IF removed THEN NoFile ELSE f

RemoveCall(removed) == IF removed THEN "Remove" ELSE "Remove: failed"

\* the struct literal of LoadSOPSEnv
NewEnvConfig(envMap) ==
    [ DBHost                 |-> Lookup(envMap, DB_HOST),
      DBPort                 |-> Lookup(envMap, DB_PORT),
      DBName                 |-> Lookup(envMap, DB_NAME),
      DBUser                 |-> Lookup(envMap, DB_USER),
      DBPassword             |-> Lookup(envMap, DB_PASSWORD),
      DBMaxConnections       |-> Lookup(envMap, DB_MAX_CONNECTIONS),
      RedisURL               |-> Lookup(envMap, REDIS_URL),
      RedisPassword          |-> Lookup(envMap, REDIS_PASSWORD),
      JWTSecret              |-> Lookup(envMap, JWT_SECRET),
      APIKey                 |-> Lookup(envMap, API_KEY),
      StripeSecretKey        |-> Lookup(envMap, STRIPE_SECRET_KEY),
      SendGridAPIKey         |-> Lookup(envMap, SENDGRID_API_KEY),
      GoogleClientID         |-> Lookup(envMap, GOOGLE_CLIENT_ID),
      GoogleClientSecret     |-> Lookup(envMap, GOOGLE_CLIENT_SECRET),
      GitHubClientID         |-> Lookup(envMap, GITHUB_CLIENT_ID),
      GitHubClientSecret     |-> Lookup(envMap, GITHUB_CLIENT_SECRET),
      WebhookURL             |-> Lookup(envMap, WEBHOOK_URL),
      NotificationServiceURL |-> Lookup(envMap, NOTIFICATION_SERVICE_URL),
      Environment            |-> Lookup(envMap, ENVIRONMENT),
      Debug                  |-> Lookup(envMap, DEBUG),
      LogLevel               |-> Lookup(envMap, LOG_LEVEL),
      EncryptionKey          |-> Lookup(envMap, ENCRYPTION_KEY),
      SigningKey             |-> Lookup(envMap, SIGNING_KEY) ]

\* the field lines PrintConfig writes for record c, in order
PrintConfigLines(c) ==
    << Line("PrintConfig", DB_HOST, c.DBHost),
       Line("PrintConfig", DB_PORT, c.DBPort),
       Line("PrintConfig", DB_NAME, c.DBName),
       Line("PrintConfig", DB_USER, c.DBUser),
       Line("PrintConfig", DB_PASSWORD, maskSecret(c.DBPassword)),
       Line("PrintConfig", DB_MAX_CONNECTIONS, c.DBMaxConnections),
       Line("PrintConfig", REDIS_URL, maskSecret(c.RedisURL)),
       Line("PrintConfig", REDIS_PASSWORD, maskSecret(c.RedisPassword)),
       Line("PrintConfig", JWT_SECRET, maskSecret(c.JWTSecret)),
       Line("PrintConfig", API_KEY, maskSecret(c.APIKey)),
       Line("PrintConfig", STRIPE_SECRET_KEY, maskSecret(c.StripeSecretKey)),
       Line("PrintConfig", SENDGRID_API_KEY, maskSecret(c.SendGridAPIKey)),
       Line("PrintConfig", GOOGLE_CLIENT_ID, c.GoogleClientID),
       Line("PrintConfig", GOOGLE_CLIENT_SECRET, maskSecret(c.GoogleClientSecret)),
       Line("PrintConfig", GITHUB_CLIENT_ID, c.GitHubClientID),
       Line("PrintConfig", GITHUB_CLIENT_SECRET, maskSecret(c.GitHubClientSecret)),
       Line("PrintConfig", WEBHOOK_URL, c.WebhookURL),
       Line("PrintConfig", NOTIFICATION_SERVICE_URL, c.NotificationServiceURL),
       Line("PrintConfig", ENVIRONMENT, c.Environment),
       Line("PrintConfig", DEBUG, c.Debug),
       Line("PrintConfig", LOG_LEVEL, c.LogLevel),
       Line("PrintConfig", ENCRYPTION_KEY, maskSecret(c.EncryptionKey)),
       Line("PrintConfig", SIGNING_KEY, maskSecret(c.SigningKey)) >>

\* the loop of PrintSystemEnvVars without its test value != ""
RECURSIVE PrintSystemEnvVarsLines_noSkip(_, _)
PrintSystemEnvVarsLines_noSkip(e, i) ==
    IF i > Len(ourVars) THEN <<>>
    ELSE LET varName == ourVars[i]
             value   == Getenv(e, varName)
             rest    == PrintSystemEnvVarsLines_noSkip(e, i + 1)
         IN  IF isSecret(varName)
             THEN <<Line("PrintSystemEnvVars", varName, maskSecret(value))>> \o rest
             ELSE <<Line("PrintSystemEnvVars", varName, value)>> \o rest

\* the loop of PrintSystemEnvVars over ourVars from index i
RECURSIVE PrintSystemEnvVarsLines(_, _)
PrintSystemEnvVarsLines(e, i) ==
    IF i > Len(ourVars) THEN <<>>
    ELSE LET varName == ourVars[i]
             value   == Getenv(e, varName)
             rest    == PrintSystemEnvVarsLines(e, i + 1)
         IN  IF value # <<>>
             THEN IF isSecret(varName)
                  THEN <<Line("PrintSystemEnvVars", varName, maskSecret(value))>> \o rest
                  ELSE <<Line("PrintSystemEnvVars", varName, value)>> \o rest
             ELSE rest

\* the structured DSN line with the password as it is
StructuredDSNLines_unmasked(c) ==
    << Line("main: structured DSN", DB_USER, c.DBUser),
       Line("main: structured DSN", DB_PASSWORD, c.DBPassword),
       Line("main: structured DSN", DB_HOST, c.DBHost),
       Line("main: structured DSN", DB_PORT, c.DBPort),
       Line("main: structured DSN", DB_NAME, c.DBName) >>

\* the arguments of the two "Database DSN" lines of main, in order
StructuredDSNLines(c) ==
    << Line("main: structured DSN", DB_USER, c.DBUser),
       Line("main: structured DSN", DB_PASSWORD, maskSecret(c.DBPassword)),
       Line("main: structured DSN", DB_HOST, c.DBHost),
       Line("main: structured DSN", DB_PORT, c.DBPort),
       Line("main: structured DSN", DB_NAME, c.DBName) >>

SystemDSNLines(e) ==
    << Line("main: system DSN", DB_USER, Getenv(e, DB_USER)),
       Line("main: system DSN", DB_PASSWORD, maskSecret(Getenv(e, DB_PASSWORD))),
       Line("main: system DSN", DB_HOST, Getenv(e, DB_HOST)),
       Line("main: system DSN", DB_PORT, Getenv(e, DB_PORT)),
       Line("main: system DSN", DB_NAME, Getenv(e, DB_NAME)) >>

\* LoadSOPSEnv, lines 49-53: run `sops -d`; on failure return (nil, error),
\* and main ends in log.Fatalf
LoadSOPSEnv_Decrypt ==
    /\ prog = "env" /\ pc = "LoadSOPSEnv"
    /\ \/ /\ err' = Some(Error("failed to decrypt env file", <<>>, "exit status"))
          /\ pc' = "fatal"
          /\ calls' = Append(calls, "sops: failed")
          /\ UNCHANGED decryptedData
       \/ /\ decryptedData' = file
          /\ pc' = "LoadSOPSEnv: CreateTemp"
          /\ calls' = Append(calls, "sops")
          /\ UNCHANGED err
    /\ UNCHANGED <<prog, file, parsed, tmpFile, config, env, lineNo, out, arg, ret>>

\* LoadSOPSEnv, lines 55-59: create the temp file and defer its removal
LoadSOPSEnv_CreateTemp ==
    /\ prog = "env" /\ pc = "LoadSOPSEnv: CreateTemp"
    /\ \/ /\ err' = Some(Error("failed to create temp file", <<>>, "io"))
          /\ pc' = "fatal"
          /\ calls' = Append(calls, "CreateTemp: failed")
          /\ decryptedData' = <<>>
          /\ UNCHANGED tmpFile
       \/ /\ tmpFile' = Some(<<>>)
          /\ pc' = "LoadSOPSEnv: Write"
          /\ calls' = Append(calls, "CreateTemp")
          /\ UNCHANGED <<err, decryptedData>>
    /\ UNCHANGED <<prog, file, parsed, config, env, lineNo, out, arg, ret>>

\* LoadSOPSEnv, lines 61-64: write the plaintext; on failure the deferred
\* os.Remove runs, on the file still open, and the function returns
\* (nil, error)
LoadSOPSEnv_Write ==
    /\ prog = "env" /\ pc = "LoadSOPSEnv: Write"
    /\ \/ /\ err' = Some(Error("failed to write temp file", <<>>, "io"))
          /\ pc' = "fatal"
          /\ decryptedData' = <<>>
          /\ \E removed \in BOOLEAN :
                /\ tmpFile' = Remove(tmpFile, removed)
                /\ calls' = calls \o <<"Write: failed", RemoveCall(removed)>>
       \/ /\ tmpFile' = Some(decryptedData)
          /\ pc' = "LoadSOPSEnv: Read"
          /\ calls' = Append(calls, "Write")
          /\ UNCHANGED <<err, decryptedData>>
    /\ UNCHANGED <<prog, file, parsed, config, env, lineNo, out, arg, ret>>

\* LoadSOPSEnv that returns the record it could build together with the
\* parse error
LoadSOPSEnv_Read_returnsBoth ==
    /\ prog = "env" /\ pc = "LoadSOPSEnv: Read"
    /\ decryptedData' = <<>>
    /\ config' = Some(NewEnvConfig(parsed.entries))
    /\ \E removed \in BOOLEAN :
          /\ tmpFile' = Remove(tmpFile, removed)
          /\ IF parsed.ok
             THEN /\ pc' = "PrintConfig"
                  /\ calls' = calls \o <<"godotenv.Read", RemoveCall(removed)>>
                  /\ UNCHANGED err
             ELSE /\ err' = Some(Wrap("failed to parse env file", "godotenv", parsed.quoted))
                  /\ pc' = "fatal"
                  /\ calls' = calls \o <<"godotenv.Read: failed", RemoveCall(removed)>>
    /\ UNCHANGED <<prog, file, parsed, env, lineNo, out, arg, ret>>

\* LoadSOPSEnv, lines 66-97: godotenv.Read of the temp file, the struct
\* literal, the deferred os.Remove, the return
LoadSOPSEnv_Read ==
    /\ prog = "env" /\ pc = "LoadSOPSEnv: Read"
    /\ decryptedData' = <<>>
    /\ \E removed \in BOOLEAN :
          /\ tmpFile' = Remove(tmpFile, removed)
          /\ IF parsed.ok
             THEN /\ config' = Some(NewEnvConfig(parsed.entries))
                  /\ pc' = "PrintConfig"
                  /\ calls' = calls \o <<"godotenv.Read", RemoveCall(removed)>>
                  /\ UNCHANGED err
             ELSE /\ err' = Some(Wrap("failed to parse env file", "godotenv", parsed.quoted))
                  /\ pc' = "fatal"
                  /\ calls' = calls \o <<"godotenv.Read: failed", RemoveCall(removed)>>
                  /\ UNCHANGED config
    /\ UNCHANGED <<prog, file, parsed, env, lineNo, out, arg, ret>>

\* PrintConfig, lines 132-172
PrintConfig ==
    /\ prog = "env" /\ pc = "PrintConfig"
    /\ out' = out \o PrintConfigLines(config[1])
    /\ pc' = "LoadSOPSEnvToSystem"
    /\ UNCHANGED <<prog, file, parsed, decryptedData, tmpFile, config, err, env,
                   lineNo, calls, arg, ret>>

\* LoadSOPSEnvToSystem that goes on to scan after a failed `sops -d`
LoadSOPSEnvToSystem_Decrypt_ignoresError ==
    /\ prog = "env" /\ pc = "LoadSOPSEnvToSystem"
    /\ \/ /\ calls' = Append(calls, "sops: failed")
          /\ decryptedData' = <<>>
       \/ /\ calls' = Append(calls, "sops")
          /\ decryptedData' = file
    /\ lineNo' = 0
    /\ pc' = "LoadSOPSEnvToSystem: Scan"
    /\ UNCHANGED <<prog, file, parsed, tmpFile, config, err, env, out, arg, ret>>

\* LoadSOPSEnvToSystem, lines 102-108: run `sops -d`, start the scanner
LoadSOPSEnvToSystem_Decrypt ==
    /\ prog = "env" /\ pc = "LoadSOPSEnvToSystem"
    /\ \/ /\ err' = Some(Error("failed to decrypt env file", <<>>, "exit status"))
          /\ pc' = "fatal"
          /\ calls' = Append(calls, "sops: failed")
          /\ UNCHANGED <<decryptedData, lineNo>>
       \/ /\ decryptedData' = file
          /\ lineNo' = 0
          /\ pc' = "LoadSOPSEnvToSystem: Scan"
          /\ calls' = Append(calls, "sops")
          /\ UNCHANGED err
    /\ UNCHANGED <<prog, file, parsed, tmpFile, config, env, out, arg, ret>>

\* a failed os.Setenv that skips the line and goes on
SetenvFailed_continues(key) ==
    /\ lineNo' = lineNo + 1
    /\ calls' = Append(calls, "Setenv: failed")
    /\ UNCHANGED <<pc, err, env, decryptedData>>

\* LoadSOPSEnvToSystem, lines 124-126: os.Setenv failed for key; return the
\* error, and main ends in log.Fatalf
SetenvFailed(key) ==
    /\ err' = Some(Error("failed to set env var", key, "EINVAL"))
    /\ pc' = "fatal"
    /\ calls' = Append(calls, "Setenv: failed")
    /\ decryptedData' = <<>>
    /\ UNCHANGED <<env, lineNo>>

\* the scanner loop that skips a line whose key is empty
LoadSOPSEnvToSystem_Scan_skipsEmptyKey ==
    /\ prog = "env" /\ pc = "LoadSOPSEnvToSystem: Scan"
    /\ IF lineNo >= Len(decryptedData)
       THEN /\ pc' = "PrintSystemEnvVars"
            /\ decryptedData' = <<>>
            /\ UNCHANGED <<err, env, lineNo, calls>>
       ELSE LET raw   == decryptedData[lineNo + 1]
                line  == TrimSpace(raw)
                parts == SplitN2(line)
                key   == TrimSpace(parts[1])
                value == TrimSpace(parts[2])
            IN  IF TooLong(raw)
                THEN /\ err' = Some(Error("", <<>>, "bufio.Scanner: token too long"))
                     /\ pc' = "fatal"
                     /\ decryptedData' = <<>>
                     /\ UNCHANGED <<env, lineNo, calls>>
                ELSE IF line = <<>> \/ HasPrefix(line, <<"#">>) \/ Len(parts) # 2
                        \/ key = <<>>
                THEN /\ lineNo' = lineNo + 1
                     /\ UNCHANGED <<pc, err, env, decryptedData, calls>>
                ELSE IF SetenvFails(key, value)
                THEN SetenvFailed(key)
                ELSE /\ env' = Setenv(env, key, value)
                     /\ lineNo' = lineNo + 1
                     /\ calls' = Append(calls, "Setenv")
                     /\ UNCHANGED <<pc, err, decryptedData>>
    /\ UNCHANGED <<prog, file, parsed, tmpFile, config, out, arg, ret>>

\* the scanner loop without its test for a comment
LoadSOPSEnvToSystem_Scan_noCommentCheck ==
    /\ prog = "env" /\ pc = "LoadSOPSEnvToSystem: Scan"
    /\ IF lineNo >= Len(decryptedData)
       THEN /\ pc' = "PrintSystemEnvVars"
            /\ decryptedData' = <<>>
            /\ UNCHANGED <<err, env, lineNo, calls>>
       ELSE LET raw   == decryptedData[lineNo + 1]
                line  == TrimSpace(raw)
                parts == SplitN2(line)
                key   == TrimSpace(parts[1])
                value == TrimSpace(parts[2])
            IN  IF TooLong(raw)
                THEN /\ err' = Some(Error("", <<>>, "bufio.Scanner: token too long"))
                     /\ pc' = "fatal"
                     /\ decryptedData' = <<>>
                     /\ UNCHANGED <<env, lineNo, calls>>
                ELSE IF line = <<>> \/ Len(parts) # 2
                THEN /\ lineNo' = lineNo + 1
                     /\ UNCHANGED <<pc, err, env, decryptedData, calls>>
                ELSE IF SetenvFails(key, value)
                THEN SetenvFailed(key)
                ELSE /\ env' = Setenv(env, key, value)
                     /\ lineNo' = lineNo + 1
                     /\ calls' = Append(calls, "Setenv")
                     /\ UNCHANGED <<pc, err, decryptedData>>
    /\ UNCHANGED <<prog, file, parsed, tmpFile, config, out, arg, ret>>

\* LoadSOPSEnvToSystem, lines 109-129: one turn of the scanner loop, or the
\* return of scanner.Err() when the scanner stops
LoadSOPSEnvToSystem_Scan ==
    /\ prog = "env" /\ pc = "LoadSOPSEnvToSystem: Scan"
    /\ IF lineNo >= Len(decryptedData)
       THEN /\ pc' = "PrintSystemEnvVars"
            /\ decryptedData' = <<>>
            /\ UNCHANGED <<err, env, lineNo, calls>>
       ELSE LET raw   == decryptedData[lineNo + 1]
                line  == TrimSpace(raw)
                parts == SplitN2(line)
                key   == TrimSpace(parts[1])
                value == TrimSpace(parts[2])
            IN  IF TooLong(raw)
                THEN /\ err' = Some(Error("", <<>>, "bufio.Scanner: token too long"))
                     /\ pc' = "fatal"
                     /\ decryptedData' = <<>>
                     /\ UNCHANGED <<env, lineNo, calls>>
                ELSE IF line = <<>> \/ HasPrefix(line, <<"#">>) \/ Len(parts) # 2
                THEN /\ lineNo' = lineNo + 1
                     /\ UNCHANGED <<pc, err, env, decryptedData, calls>>
                ELSE IF SetenvFails(key, value)
                THEN SetenvFailed(key)
                ELSE /\ env' = Setenv(env, key, value)
                     /\ lineNo' = lineNo + 1
                     /\ calls' = Append(calls, "Setenv")
                     /\ UNCHANGED <<pc, err, decryptedData>>
    /\ UNCHANGED <<prog, file, parsed, tmpFile, config, out, arg, ret>>

\* PrintSystemEnvVars, lines 174-200
PrintSystemEnvVars ==
    /\ prog = "env" /\ pc = "PrintSystemEnvVars"
    /\ out' = out \o PrintSystemEnvVarsLines(env, 1)
    /\ pc' = "main: examples"
    /\ UNCHANGED <<prog, file, parsed, decryptedData, tmpFile, config, err, env,
                   lineNo, calls, arg, ret>>

\* main, lines 242-268: the two example DSN lines
MainExamples ==
    /\ prog = "env" /\ pc = "main: examples"
    /\ out' = out \o StructuredDSNLines(config[1]) \o SystemDSNLines(env)
    /\ pc' = "done"
    /\ UNCHANGED <<prog, file, parsed, decryptedData, tmpFile, config, err, env,
                   lineNo, calls, arg, ret>>

-----------------------------------------------------------------------------
(* The YAML program: src/unnamed/part_001 *)

Digits == <<"0", "1", "2", "3", "4", "5", "6", "7", "8", "9">>

\* the verb %d of fmt.Printf
RECURSIVE FormatInt(_)
FormatInt(n) ==
    IF n < 0 THEN <<"-">> \o FormatInt(0 - n)
    ELSE IF n < 10 THEN <<Digits[n + 1]>>
    ELSE FormatInt(n \div 10) \o <<Digits[(n % 10) + 1]>>

\* the labels of the report lines of main
Host == <<"H", "o", "s", "t">>
Port == <<"P", "o", "r", "t">>
Database == <<"D", "a", "t", "a", "b", "a", "s", "e">>
Username == <<"U", "s", "e", "r", "n", "a", "m", "e">>
Password == <<"P", "a", "s", "s", "w", "o", "r", "d">>
MaxConnections == <<"M", "a", "x", " ", "C", "o", "n", "n", "e", "c", "t", "i", "o", "n", "s">>
Address == <<"A", "d", "d", "r", "e", "s", "s">>
AuthKey == <<"A", "u", "t", "h", " ", "K", "e", "y">>

\* the field lines main writes for Config c, in order, and the arguments of
\* its "PostgreSQL DSN" and "Redis URL" lines
YamlMainLines(c) ==
    << Line("yaml main: Database", Host, c.Storage.PSQL.Host),
       Line("yaml main: Database", Port, FormatInt(c.Storage.PSQL.Port)),
       Line("yaml main: Database", Database, c.Storage.PSQL.Database),
       Line("yaml main: Database", Username, c.Storage.PSQL.Username),
       Line("yaml main: Database", Password, c.Storage.PSQL.Password),
       Line("yaml main: Database", MaxConnections, FormatInt(c.Storage.PSQL.PGPoolMaxConn)),
       Line("yaml main: Redis", Address, c.Storage.Redis.Addr),
       Line("yaml main: Redis", Port, FormatInt(c.Storage.Redis.Port)),
       Line("yaml main: Redis", Username, c.Storage.Redis.Username),
       Line("yaml main: Redis", Password, c.Storage.Redis.Password),
       Line("yaml main: Redis", Database, FormatInt(c.Storage.Redis.DB)),
       Line("yaml main: JWT", AuthKey, c.JWT.Auth),
       Line("yaml main: PostgreSQL DSN", Username, c.Storage.PSQL.Username),
       Line("yaml main: PostgreSQL DSN", Password, c.Storage.PSQL.Password),
       Line("yaml main: PostgreSQL DSN", Host, c.Storage.PSQL.Host),
       Line("yaml main: PostgreSQL DSN", Port, FormatInt(c.Storage.PSQL.Port)),
       Line("yaml main: PostgreSQL DSN", Database, c.Storage.PSQL.Database),
       Line("yaml main: Redis URL", Username, c.Storage.Redis.Username),
       Line("yaml main: Redis URL", Password, c.Storage.Redis.Password),
       Line("yaml main: Redis URL", Address, c.Storage.Redis.Addr),
       Line("yaml main: Redis URL", Port, FormatInt(c.Storage.Redis.Port)),
       Line("yaml main: Redis URL", Database, FormatInt(c.Storage.Redis.DB)) >>

\* LoadSOPSConfig, lines 43-47: run `sops -d`; on failure return (nil, error),
\* and main ends in log.Fatalf
LoadSOPSConfig_Decrypt ==
    /\ prog = "yaml" /\ pc = "LoadSOPSConfig"
    /\ \/ /\ err' = Some(Error("failed to decrypt config file", <<>>, "exit status"))
          /\ pc' = "fatal"
          /\ calls' = Append(calls, "sops: failed")
          /\ UNCHANGED decryptedData
       \/ /\ decryptedData' = file
          /\ pc' = "LoadSOPSConfig: Unmarshal"
          /\ calls' = Append(calls, "sops")
          /\ UNCHANGED err
    /\ UNCHANGED <<prog, file, parsed, tmpFile, config, env, lineNo, out, arg, ret>>

\* LoadSOPSConfig that drops the error of yaml.Unmarshal
LoadSOPSConfig_Unmarshal_ignoresError ==
    /\ prog = "yaml" /\ pc = "LoadSOPSConfig: Unmarshal"
    /\ decryptedData' = <<>>
    /\ config' = Some(parsed.entries)
    /\ pc' = "yaml main: print"
    /\ calls' = Append(calls, IF parsed.ok THEN "yaml.Unmarshal"
                                           ELSE "yaml.Unmarshal: failed")
    /\ UNCHANGED <<prog, file, parsed, tmpFile, err, env, lineNo, out, arg, ret>>

\* LoadSOPSConfig, lines 49-54: yaml.Unmarshal into a Config, the return
LoadSOPSConfig_Unmarshal ==
    /\ prog = "yaml" /\ pc = "LoadSOPSConfig: Unmarshal"
    /\ decryptedData' = <<>>
    /\ IF parsed.ok
       THEN /\ config' = Some(parsed.entries)
            /\ pc' = "yaml main: print"
            /\ calls' = Append(calls, "yaml.Unmarshal")
            /\ UNCHANGED err
       ELSE /\ err' = Some(Wrap("failed to parse config", "yaml", parsed.quoted))
            /\ pc' = "fatal"
            /\ calls' = Append(calls, "yaml.Unmarshal: failed")
            /\ UNCHANGED config
    /\ UNCHANGED <<prog, file, parsed, tmpFile, env, lineNo, out, arg, ret>>

\* main, lines 63-97: the report and the two example lines
YamlMainPrint ==
    /\ prog = "yaml" /\ pc = "yaml main: print"
    /\ out' = out \o YamlMainLines(config[1])
    /\ pc' = "done"
    /\ UNCHANGED <<prog, file, parsed, decryptedData, tmpFile, config, err, env,
                   lineNo, calls, arg, ret>>

-----------------------------------------------------------------------------
(* The inputs of the model *)

\* all strings over alphabet A of length at most n
StringsUpTo(A, n) == UNION {[1..k -> A] : k \in 0..n}

\* key of a document that is not a schema name
EXTRA == <<"E", "X", "T", "R", "A">>
HOME == <<"H", "O", "M", "E">>

localhost == <<"l", "o", "c", "a", "l", "h", "o", "s", "t">>
super_secret_password_123 == <<"s", "u", "p", "e", "r", "_", "s", "e", "c", "r", "e", "t", "_", "p", "a", "s", "s", "w", "o", "r", "d", "_", "1", "2", "3">>
redis_url == <<"r", "e", "d", "i", "s", ":", "/", "/", "d", "e", "f", "a", "u", "l", "t", ":", "p", "a", "s", "s", "w", "o", "r", "d", "@", "h", "o", "s", "t", ":", "6", "3", "7", "9">>

\* the lines a decrypted env document is made of
LinePool ==
    { DB_HOST \o <<"=">> \o localhost,
      <<" ", " ">> \o DB_HOST \o <<" ", "=", " ", "d", "b", "2", "\t">>,
      <<"#", " ">> \o DB_PORT \o <<"=", "1">>,
      <<"#", LongRun>>,
      <<" ">>,
      <<"n", "o", "v", "a", "l", "u", "e">>,
      <<"=", "v", "a", "l", "u", "e">>,
      <<" ", " ", "=", " ", "x">>,
      DB_PASSWORD \o <<"=">> \o super_secret_password_123,
      EXTRA \o <<"=", "a", "=", "b">>,
      API_KEY \o <<"=", "k", NUL>>,
      JWT_SECRET \o <<"=">>,
      DEBUG \o <<"=", LongRun>>,
      REDIS_URL \o <<"=">> \o redis_url }

Docs == StringsUpTo(LinePool, MaxLines)

\* the values a parsed entry holds
Values == { <<>>, <<"k", "3", "y">>, super_secret_password_123 }

MapKeys == Range(ourVars) \cup {EXTRA}

\* the maps godotenv.Read may return: at most MaxEntries entries
EnvMaps ==
    UNION { [K -> Values] : K \in {S \in SUBSET MapKeys : Cardinality(S) <= MaxEntries} }

\* the document and the parsed map of the README
DefaultDoc ==
    << DB_HOST \o <<"=">> \o localhost,
       DB_PASSWORD \o <<"=">> \o super_secret_password_123 >>

DefaultMap ==
    [k \in {DB_HOST, DB_PORT, DB_NAME, DB_USER, DB_PASSWORD, REDIS_URL} |->
        CASE k = DB_HOST -> localhost
          [] k = DB_PORT -> <<"5", "4", "3", "2">>
          [] k = DB_NAME -> <<"p", "r", "o", "d", "u", "c", "t", "i", "o", "n", "_", "d", "b">>
          [] k = DB_USER -> <<"a", "d", "m", "i", "n">>
          [] k = DB_PASSWORD -> super_secret_password_123
          [] k = REDIS_URL -> redis_url]

\* what a parser yields: the entries, or an error whose text quotes some
\* pieces of the document
Parsed(entries) == [ok |-> TRUE, entries |-> entries, quoted |-> <<>>]
ParseFailed == [ok |-> FALSE, entries |-> <<>>, quoted |-> <<>>]

\* a line KEY=VALUE with nothing for a parser to interpret: no blank, no
\* quote, no "#", no "$", no backslash
PlainLine(k) == k \o <<"=">> \o DefaultMap[k]

PlainPool ==
    {PlainLine(k) : k \in DOMAIN DefaultMap}
        \cup {EXTRA \o <<"=", "a", "=", "b">>, JWT_SECRET \o <<"=">>}

\* the five lines of the README behind the example DSN
ReadmeDoc ==
    << PlainLine(DB_HOST), PlainLine(DB_PORT), PlainLine(DB_NAME),
       PlainLine(DB_USER), PlainLine(DB_PASSWORD) >>

\* documents of plain lines, no key twice
PlainDocs ==
    {d \in StringsUpTo(PlainPool, MaxLines) :
        \A i, j \in DOMAIN d : i # j => SplitN2(d[i])[1] # SplitN2(d[j])[1]}
    \cup {ReadmeDoc}

\* what godotenv.Read yields for a document of PlainDocs: each key with the
\* text after its first "="
godotenv_Read(doc) ==
    [k \in {SplitN2(doc[i])[1] : i \in DOMAIN doc} |->
        SplitN2(doc[CHOOSE i \in DOMAIN doc : SplitN2(doc[i])[1] = k])[2]]

\* the plaintexts of config.sops.env, each with what godotenv.Read yields
EnvWorlds ==
    {[file |-> DefaultDoc, parsed |-> Parsed(m)] : m \in EnvMaps}
    \cup {[file |-> d, parsed |-> Parsed(DefaultMap)] : d \in Docs}
    \cup {[file |-> d, parsed |-> Parsed(godotenv_Read(d))] : d \in PlainDocs}
    \cup {[file |-> DefaultDoc, parsed |-> ParseFailed]}

\* the environment the process starts with
EnvInits ==
    { [n \in {} |-> <<>>],
      [n \in {DB_HOST, JWT_SECRET, HOME} |->
        CASE n = DB_HOST -> <<"o", "l", "d", "h", "o", "s", "t">>
          [] n = JWT_SECRET -> <<"p", "r", "e", "v", "_", "j", "w", "t">>
          [] n = HOME -> <<"/", "r", "o", "o", "t">>] }

\* the Configs yaml.Unmarshal may return
YamlConfigs ==
    { [ Storage |->
          [ PSQL  |-> [ Host |-> <<"1", "2", "7", ".", "0", ".", "0", ".", "1">>,
                        Port |-> port,
                        Database |-> <<"t", "e", "s", "t", "t", "t">>,
                        Username |-> <<"p", "o", "s", "t", "g", "r", "e", "s">>,
                        Password |-> pw,
                        PGPoolMaxConn |-> 400 ],
            Redis |-> [ Addr |-> localhost,
                        Port |-> 6379,
                        Username |-> <<"u", "s", "e", "r">>,
                        Password |-> rpw,
                        DB |-> 0 ] ],
        JWT |-> [ Auth |-> auth ] ] :
      port \in {0, 5432},
      pw \in {<<>>, <<"1", "2", "3", "4", "5">>},
      rpw \in {<<>>, <<"s", "e", "c", "u", "4", "e">>},
      auth \in Values }

\* a YAML document: its scalars in document order, each with the dotted
\* path of its key
Scalar(path, value) == [path |-> path, value |-> value]

YamlDoc == << Scalar("jwt", <<>>) >>

\* the fields of Config of type int
IntFields ==
    {"storage.psql.port", "storage.psql.pg_pool_max_conn",
     "storage.redis.port", "storage.redis.db"}

IsInt(text) ==
    LET digits == IF text # <<>> /\ Head(text) = "-" THEN Tail(text) ELSE text
    IN  /\ digits # <<>>
        /\ \A i \in 1..Len(digits) : \E d \in DOMAIN Digits : Digits[d] = digits[i]

DigitValue(c) == (CHOOSE d \in DOMAIN Digits : Digits[d] = c) - 1

RECURSIVE Atoi(_)
Atoi(text) ==
    IF Head(text) = "-" THEN 0 - Atoi(Tail(text))
    ELSE IF Len(text) = 1 THEN DigitValue(text[1])
    ELSE 10 * Atoi(SubSeq(text, 1, Len(text) - 1)) + DigitValue(text[Len(text)])

\* the scalar of doc at path, "" when doc has none
YamlValue(doc, path) ==
    IF \E i \in DOMAIN doc : doc[i].path = path
    THEN doc[CHOOSE i \in DOMAIN doc : doc[i].path = path].value
    ELSE <<>>

\* an int field: 0 when the key is absent or null
YamlInt(doc, path) ==
    IF YamlValue(doc, path) = <<>> THEN 0 ELSE Atoi(YamlValue(doc, path))

\* a scalar that yaml.v3 cannot decode into its field
Undecodable(e) == e.path \in IntFields /\ e.value # <<>> /\ ~IsInt(e.value)

\* the value as the text of a yaml.TypeError shows it
Short(value) ==
    IF Len(value) > 10 THEN SubSeq(value, 1, 7) \o <<".", ".", ".">> ELSE value

TypeError(quoted) == [ok |-> FALSE, entries |-> <<>>, quoted |-> quoted]

\* yaml.Unmarshal(decryptedData, &config) for a document of scalars: the Config,
\* or a TypeError with one line "cannot unmarshal !!str `value` into int" for
\* each scalar that does not fit
yaml_Unmarshal(doc) ==
    LET bad == SelectSeq(doc, Undecodable)
    IN  IF bad # <<>>
        THEN TypeError([i \in 1..Len(bad) |-> Short(bad[i].value)])
        ELSE Parsed(
          [ Storage |->
              [ PSQL  |-> [ Host |-> YamlValue(doc, "storage.psql.host"),
                            Port |-> YamlInt(doc, "storage.psql.port"),
                            Database |-> YamlValue(doc, "storage.psql.database"),
                            Username |-> YamlValue(doc, "storage.psql.username"),
                            Password |-> YamlValue(doc, "storage.psql.password"),
                            PGPoolMaxConn |-> YamlInt(doc, "storage.psql.pg_pool_max_conn") ],
                Redis |-> [ Addr |-> YamlValue(doc, "storage.redis.addr"),
                            Port |-> YamlInt(doc, "storage.redis.port"),
                            Username |-> YamlValue(doc, "storage.redis.username"),
                            Password |-> YamlValue(doc, "storage.redis.password"),
                            DB |-> YamlInt(doc, "storage.redis.db") ] ],
            JWT |-> [ Auth |-> YamlValue(doc, "jwt.auth") ] ])

hunter2 == <<"h", "u", "n", "t", "e", "r", "2">>

\* the scalars a decrypted YAML document is made of
ScalarPool ==
    { Scalar("storage.psql.host", <<"1", "2", "7", ".", "0", ".", "0", ".", "1">>),
      Scalar("storage.psql.port", <<"5", "4", "3", "2">>),
      Scalar("storage.psql.port", hunter2),
      Scalar("storage.psql.port", <<>>),
      Scalar("storage.psql.password", <<"1", "2", "3", "4", "5">>),
      Scalar("storage.psql.pg_pool_max_conn", super_secret_password_123),
      Scalar("storage.redis.db", <<"-", "1">>),
      Scalar("jwt.auth", <<"k", "3", "y">>) }

\* documents of at most MaxLines scalars, no key twice
YamlDocs ==
    {d \in StringsUpTo(ScalarPool, MaxLines) :
        \A i, j \in DOMAIN d : i # j => d[i].path # d[j].path}

YamlWorlds ==
    {[file |-> YamlDoc, parsed |-> Parsed(c)] : c \in YamlConfigs}
    \cup {[file |-> d, parsed |-> yaml_Unmarshal(d)] : d \in YamlDocs}
    \cup {[file |-> YamlDoc, parsed |-> ParseFailed]}

-----------------------------------------------------------------------------
(* The two programs *)

Init ==
    /\ prog \in {"env", "yaml"}
    /\ pc = IF prog = "env" THEN "LoadSOPSEnv" ELSE "LoadSOPSConfig"
    /\ \E w \in (IF prog = "env" THEN EnvWorlds ELSE YamlWorlds) :
          /\ file = w.file
          /\ parsed = w.parsed
    /\ env \in EnvInits
    /\ decryptedData = <<>>
    /\ tmpFile = NoFile
    /\ config = Nil
    /\ err = Nil
    /\ lineNo = 0
    /\ out = <<>>
    /\ calls = <<>>
    /\ arg = <<>>
    /\ ret = Nil

Next ==
    \/ LoadSOPSEnv_Decrypt
    \/ LoadSOPSEnv_CreateTemp
    \/ LoadSOPSEnv_Write
    \/ LoadSOPSEnv_Read
    \/ PrintConfig
    \/ LoadSOPSEnvToSystem_Decrypt
    \/ LoadSOPSEnvToSystem_Scan
    \/ PrintSystemEnvVars
    \/ MainExamples
    \/ LoadSOPSConfig_Decrypt
    \/ LoadSOPSConfig_Unmarshal
    \/ YamlMainPrint

Spec == Init /\ [][Next]_vars

-----------------------------------------------------------------------------
(* maskSecret and isSecret on their own: the input is drawn, the function is *)
(* applied once                                                              *)

MaskBytes == {"a", "b", "*"}

KeyBytes == {"K", "E", "Y", "k", "e", "y"}

ToLowerByte(c) ==
    IF \E i \in DOMAIN UpperLetters : UpperLetters[i] = c
    THEN LowerLetters[CHOOSE i \in DOMAIN UpperLetters : UpperLetters[i] = c]
    ELSE c

ToLower(str) == [i \in 1..Len(str) |-> ToLowerByte(str[i])]

\* first byte as it is, the rest in lower case
Capitalized(str) ==
    IF str = <<>> THEN <<>> ELSE <<Head(str)>> \o ToLower(Tail(str))

\* the names given to isSecret: the schema names, the labels of the YAML
\* report and the markers, in three spellings; each marker short of its last
\* byte; every string over KeyBytes of at most MaxNameLen bytes
ClassifyNames ==
    LET base == Range(ourVars) \cup Range(secretVars)
                  \cup {EXTRA, HOME, Host, Port, Database, Username, Password,
                        MaxConnections, Address, AuthKey}
                  \cup {SubSeq(m, 1, Len(m) - 1) : m \in Range(secretVars)}
                  \cup {<<"a", "_">> \o m \o <<"_", "b">> : m \in Range(secretVars)}
    IN  base \cup {ToLower(n) : n \in base} \cup {Capitalized(n) : n \in base}
             \cup StringsUpTo(KeyBytes, MaxNameLen)

HarnessInit(name, inputs) ==
    /\ prog = name
    /\ pc = "call"
    /\ arg \in inputs
    /\ ret = Nil
    /\ file = <<>>
    /\ parsed = ParseFailed
    /\ env = [n \in {} |-> <<>>]
    /\ decryptedData = <<>>
    /\ tmpFile = NoFile
    /\ config = Nil
    /\ err = Nil
    /\ lineNo = 0
    /\ out = <<>>
    /\ calls = <<>>

CallMaskSecret ==
    /\ prog = "maskSecret" /\ pc = "call"
    /\ ret' = Some(maskSecret(arg))
    /\ pc' = "done"
    /\ UNCHANGED <<prog, file, parsed, decryptedData, tmpFile, config, err, env,
                   lineNo, out, calls, arg>>

\* maskSecret applied to what maskSecret returned
CallMaskSecretAgain ==
    /\ prog = "maskSecret" /\ pc = "done"
    /\ ret' = Append(ret, maskSecret(ret[1]))
    /\ pc' = "done: twice"
    /\ UNCHANGED <<prog, file, parsed, decryptedData, tmpFile, config, err, env,
                   lineNo, out, calls, arg>>

MaskInit == HarnessInit("maskSecret", StringsUpTo(MaskBytes, MaxLen))

MaskNext == CallMaskSecret \/ CallMaskSecretAgain

MaskSpec == MaskInit /\ [][MaskNext]_vars

CallIsSecret ==
    /\ prog = "isSecret" /\ pc = "call"
    /\ ret' = Some(isSecret(arg))
    /\ pc' = "done"
    /\ UNCHANGED <<prog, file, parsed, decryptedData, tmpFile, config, err, env,
                   lineNo, out, calls, arg>>

ClassifyInit == HarnessInit("isSecret", ClassifyNames)

ClassifyNext == CallIsSecret

ClassifySpec == ClassifyInit /\ [][ClassifyNext]_vars

-----------------------------------------------------------------------------
(* Vocabulary of the properties *)

\* the schema: each key with the record field that holds its value
SchemaFields ==
    << <<DB_HOST, "DBHost">>, <<DB_PORT, "DBPort">>, <<DB_NAME, "DBName">>,
       <<DB_USER, "DBUser">>, <<DB_PASSWORD, "DBPassword">>,
       <<DB_MAX_CONNECTIONS, "DBMaxConnections">>,
       <<REDIS_URL, "RedisURL">>, <<REDIS_PASSWORD, "RedisPassword">>,
       <<JWT_SECRET, "JWTSecret">>, <<API_KEY, "APIKey">>,
       <<STRIPE_SECRET_KEY, "StripeSecretKey">>, <<SENDGRID_API_KEY, "SendGridAPIKey">>,
       <<GOOGLE_CLIENT_ID, "GoogleClientID">>, <<GOOGLE_CLIENT_SECRET, "GoogleClientSecret">>,
       <<GITHUB_CLIENT_ID, "GitHubClientID">>, <<GITHUB_CLIENT_SECRET, "GitHubClientSecret">>,
       <<WEBHOOK_URL, "WebhookURL">>, <<NOTIFICATION_SERVICE_URL, "NotificationServiceURL">>,
       <<ENVIRONMENT, "Environment">>, <<DEBUG, "Debug">>, <<LOG_LEVEL, "LogLevel">>,
       <<ENCRYPTION_KEY, "EncryptionKey">>, <<SIGNING_KEY, "SigningKey">> >>

SchemaKeys == {SchemaFields[i][1] : i \in DOMAIN SchemaFields}

\* the value record c holds for schema key k
FieldValue(c, k) ==
    c[SchemaFields[CHOOSE i \in DOMAIN SchemaFields : SchemaFields[i][1] = k][2]]

\* the six markers
Markers ==
    { <<"P", "A", "S", "S", "W", "O", "R", "D">>, <<"S", "E", "C", "R", "E", "T">>,
      <<"K", "E", "Y">>, <<"T", "O", "K", "E", "N">>,
      <<"C", "R", "E", "D", "E", "N", "T", "I", "A", "L">>,
      <<"P", "R", "I", "V", "A", "T", "E">> }

\* byte c is the upper-case letter u, in either case
IsLetter(c, u) ==
    \/ c = u
    \/ \E i \in DOMAIN UpperLetters : UpperLetters[i] = u /\ LowerLetters[i] = c

\* name holds marker m at some offset, whatever the case of its letters
HoldsMarker(name, m) ==
    \E k \in 0..(Len(name) - Len(m)) :
        \A j \in 1..Len(m) : IsLetter(name[k + j], m[j])

Sensitive(name) == \E m \in Markers : HoldsMarker(name, m)

\* a line of a document that sets a variable: not blank, not a comment, with "="
WellFormed(raw) ==
    LET line == TrimSpace(raw)
    IN  /\ line # <<>>
        /\ line[1] # "#"
        /\ \E i \in 1..Len(line) : line[i] = "="

FirstEq(line) == CHOOSE i \in 1..Len(line) : line[i] = "=" /\ \A j \in 1..(i - 1) : line[j] # "="

KeyOf(raw) ==
    LET line == TrimSpace(raw) IN TrimSpace(SubSeq(line, 1, FirstEq(line) - 1))

ValueOf(raw) ==
    LET line == TrimSpace(raw) IN TrimSpace(SubSeq(line, FirstEq(line) + 1, Len(line)))

\* among the first n lines of doc, the last well-formed line with key k
LastLineFor(doc, n, k) ==
    CHOOSE j \in 1..n :
        /\ WellFormed(doc[j]) /\ KeyOf(doc[j]) = k
        /\ \A h \in (j + 1)..n : ~(WellFormed(doc[h]) /\ KeyOf(doc[h]) = k)

\* every variable named by a well-formed line among the first n lines of doc
\* holds the trimmed value of the last such line for its name
Exported(doc, n) ==
    \A i \in 1..n :
        WellFormed(doc[i]) =>
            LET k == KeyOf(doc[i])
            IN  /\ k \in DOMAIN env
                /\ env[k] = ValueOf(doc[LastLineFor(doc, n, k)])

\* the lines function fn wrote for field name
Written(fn, name) == {i \in 1..Len(out) : out[i].fn = fn /\ out[i].name = name}

\* the value an output line was formatted from
WrittenValue(l) ==
    IF l.fn \in {"PrintConfig", "main: structured DSN"}
    THEN FieldValue(config[1], l.name)
    ELSE IF l.fn \in {"PrintSystemEnvVars", "main: system DSN"}
    THEN Getenv(env, l.name)
    ELSE IF l.name = AuthKey THEN config[1].JWT.Auth
    ELSE IF l.fn \in {"yaml main: Database", "yaml main: PostgreSQL DSN"}
    THEN config[1].Storage.PSQL.Password
    ELSE config[1].Storage.Redis.Password

LoadFailures ==
    {"sops: failed", "CreateTemp: failed", "Write: failed", "godotenv.Read: failed"}

ExportSucceeded ==
    prog = "env" /\ pc \in {"PrintSystemEnvVars", "main: examples", "done"}

-----------------------------------------------------------------------------
(* The properties *)

\* C1: whatever any presentation path (PrintConfig, PrintSystemEnvVars, the
\* example DSN/URL lines, of the env program and of the YAML program) writes
\* for a field whose name isSecret marks sensitive is maskSecret of the
\* field's value.
C1_NoUnmaskedSecretWritten ==
    \A i \in 1..Len(out) :
        isSecret(out[i].name) => out[i].text = maskSecret(WrittenValue(out[i]))

\* C2: for every string of at most 4 bytes, the empty one included,
\* maskSecret returns a string of the same length made of "*" only.
C2_ShortIsAllMask ==
    (prog = "maskSecret" /\ pc = "done" /\ Len(arg) <= 4) =>
        /\ ret # Nil
        /\ Len(ret[1]) = Len(arg)
        /\ \A i \in 1..Len(ret[1]) : ret[1][i] = "*"
        /\ (arg = <<>> => ret[1] = <<>>)

C2_Witness ==
    /\ prog = "maskSecret" /\ pc = "done"
    /\ arg = <<"a", "b", "b", "a">>
    /\ ret = Some(<<"*", "*", "*", "*">>)

\* C3: for every string of more than 4 bytes, maskSecret returns a string of
\* the same length whose first two and last two bytes are those of the input
\* and whose other bytes are all "*".
C3_LongKeepsEnds ==
    (prog = "maskSecret" /\ pc = "done" /\ Len(arg) > 4) =>
        /\ ret # Nil
        /\ Len(ret[1]) = Len(arg)
        /\ \A i \in {1, 2, Len(arg) - 1, Len(arg)} : ret[1][i] = arg[i]
        /\ \A i \in 3..(Len(arg) - 2) : ret[1][i] = "*"
        /\ Cardinality(3..(Len(arg) - 2)) = Len(arg) - 4

C3_Witness ==
    /\ prog = "maskSecret" /\ pc = "done"
    /\ arg = <<"a", "b", "a", "b", "b">>
    /\ ret = Some(<<"a", "b", "*", "b", "b">>)

\* C4: isSecret(name) is true exactly when name holds one of the six markers,
\* whatever the case of its letters; it is false for DB_HOST, DB_PORT and
\* GOOGLE_CLIENT_ID and true for GOOGLE_CLIENT_SECRET.
C4_SecretIffMarker ==
    (prog = "isSecret" /\ pc = "done") =>
        /\ ret # Nil
        /\ ret[1] = Sensitive(arg)
        /\ (arg \in {DB_HOST, DB_PORT, GOOGLE_CLIENT_ID} => ret[1] = FALSE)
        /\ (arg = GOOGLE_CLIENT_SECRET => ret[1] = TRUE)

C4_Witness ==
    /\ prog = "isSecret" /\ pc = "done"
    /\ arg = <<"a", "_", "t", "o", "k", "e", "n", "_", "b">>
    /\ ret = Some(TRUE)

\* C5: in the typed-record report and in the environment-table report a field
\* is written as maskSecret of its value if and only if isSecret of its name
\* is true, and verbatim otherwise.
C5_MaskedIffSecret ==
    \A i \in 1..Len(out) :
        out[i].fn \in {"PrintConfig", "PrintSystemEnvVars"} =>
            out[i].text = IF isSecret(out[i].name)
                          THEN maskSecret(WrittenValue(out[i]))
                          ELSE WrittenValue(out[i])

\* C6: after LoadSOPSEnvToSystem has succeeded, every variable named by a
\* well-formed line KEY=VALUE of the document holds the trimmed value of the
\* last such line for its trimmed key, whatever it held before.
C6_ExportLastWins ==
    ExportSucceeded => Exported(file, Len(file))

C6_Witness ==
    /\ ExportSucceeded
    /\ Len(file) = 2
    /\ WellFormed(file[1]) /\ WellFormed(file[2])
    /\ KeyOf(file[1]) = DB_HOST /\ KeyOf(file[2]) = DB_HOST
    /\ ValueOf(file[1]) # ValueOf(file[2])
    /\ file[2] # TrimSpace(file[2])
    /\ HOME \in DOMAIN env
    /\ env[DB_HOST] = <<"d", "b", "2">>

\* C7: a failure of the decryptor ends the load: the function returns an
\* error, LoadSOPSEnv and LoadSOPSConfig return no record, and nothing
\* happens after it: no temp file, no parsing, no variable set, no output.
C7_DecryptFailureIsTerminal ==
    /\ [](\A i \in 1..Len(calls) :
            calls[i] = "sops: failed" =>
                /\ i = Len(calls)
                /\ pc = "fatal"
                /\ err # Nil
                /\ (i = 1 => tmpFile = NoFile /\ config = Nil /\ out = <<>>))
    /\ [][(calls' = Append(calls, "sops: failed")) =>
            /\ env' = env /\ tmpFile' = tmpFile /\ config' = config /\ out' = out]_vars
    /\ [][(calls # <<>> /\ calls[Len(calls)] = "sops: failed") => UNCHANGED vars]_vars

C7_Witness ==
    /\ prog = "env" /\ pc = "fatal"
    /\ config # Nil
    /\ calls[Len(calls)] = "sops: failed"
    /\ file # <<>>

\* C8: the record LoadSOPSEnv returns holds, for every schema key among the
\* parsed entries, exactly the parsed value, sensitive fields included; the
\* mask is applied when the record is printed: DB_PASSWORD's value
\* super_secret_password_123 is whole in the record and su***...***23 in the
\* report.
C8_RecordHoldsParsedValues ==
    (prog = "env" /\ config # Nil) =>
        /\ \A k \in SchemaKeys \cap DOMAIN parsed.entries :
                FieldValue(config[1], k) = parsed.entries[k]
        /\ \A i \in Written("PrintConfig", DB_PASSWORD) :
                (/\ DB_PASSWORD \in DOMAIN parsed.entries
                 /\ parsed.entries[DB_PASSWORD] = super_secret_password_123) =>
                    /\ config[1].DBPassword = super_secret_password_123
                    /\ out[i].text = <<"s", "u">> \o [j \in 1..21 |-> "*"] \o <<"2", "3">>

C8_Witness ==
    /\ prog = "env" /\ config # Nil
    /\ config[1].DBPassword = super_secret_password_123
    /\ config[1].DBUser = <<"a", "d", "m", "i", "n">>
    /\ Written("PrintConfig", DB_PASSWORD) # {}

\* C9: a schema key absent from the parsed document does not make LoadSOPSEnv
\* fail and leaves its record field empty; PrintConfig still writes the
\* field's line, with an empty value; PrintSystemEnvVars writes no line for a
\* name of its allowlist whose value in the environment is empty.
C9_AbsentKeyIsEmpty ==
    prog = "env" =>
        /\ (pc = "fatal" /\ config = Nil) => \E i \in 1..Len(calls) : calls[i] \in LoadFailures
        /\ config # Nil =>
              \A k \in SchemaKeys \ DOMAIN parsed.entries :
                  /\ FieldValue(config[1], k) = <<>>
                  /\ pc # "PrintConfig" =>
                        /\ Cardinality(Written("PrintConfig", k)) = 1
                        /\ \A i \in Written("PrintConfig", k) : out[i].text = <<>>
        /\ \A k \in SchemaKeys :
              Getenv(env, k) = <<>> => Written("PrintSystemEnvVars", k) = {}

C9_Witness ==
    /\ prog = "env" /\ pc = "done"
    /\ JWT_SECRET \notin DOMAIN parsed.entries
    /\ Written("PrintConfig", JWT_SECRET) # {}
    /\ JWT_SECRET \in DOMAIN env /\ env[JWT_SECRET] = <<>>
    /\ Written("PrintSystemEnvVars", DB_HOST) # {}

\* C10: when os.Setenv fails on a line, LoadSOPSEnvToSystem returns the error
\* at once: the variables set by the lines before it keep their new values,
\* and no line after it is applied.
C10_ExportStopsAtFirstFailure ==
    /\ [](\A i \in 1..Len(calls) :
            calls[i] = "Setenv: failed" =>
                /\ i = Len(calls)
                /\ pc = "fatal"
                /\ err # Nil /\ err[1].msg = "failed to set env var"
                /\ Exported(file, lineNo)
                /\ Cardinality({j \in 1..Len(calls) : calls[j] = "Setenv"})
                      = Cardinality({j \in 1..lineNo : WellFormed(file[j])}))
    /\ [][(calls' = Append(calls, "Setenv: failed")) => env' = env]_vars
    /\ [][(calls # <<>> /\ calls[Len(calls)] = "Setenv: failed") => UNCHANGED vars]_vars

C10_Witness ==
    /\ prog = "env" /\ pc = "fatal"
    /\ calls[Len(calls)] = "Setenv: failed"
    /\ lineNo = 1
    /\ Len(file) = 2
    /\ HOME \in DOMAIN env
    /\ Getenv(env, DB_HOST) = localhost

\* the positions of main inside a load call
LoadPcs ==
    {"LoadSOPSEnv", "LoadSOPSEnv: CreateTemp", "LoadSOPSEnv: Write",
     "LoadSOPSEnv: Read", "LoadSOPSConfig", "LoadSOPSConfig: Unmarshal"}

\* the operations of a load call, each with its two outcomes
LoadOps ==
    { {"sops", "sops: failed"}, {"CreateTemp", "CreateTemp: failed"},
      {"Write", "Write: failed"}, {"godotenv.Read", "godotenv.Read: failed"},
      {"yaml.Unmarshal", "yaml.Unmarshal: failed"}, {"Remove", "Remove: failed"} }

\* no operation was run twice
AtMostOnce(cs) ==
    \A ops \in LoadOps : Cardinality({i \in 1..Len(cs) : cs[i] \in ops}) <= 1

\* c is a whole record: every field of the struct, filled from the parse
Complete(c) ==
    IF prog = "env"
    THEN /\ parsed.ok
         /\ DOMAIN c = {SchemaFields[i][2] : i \in DOMAIN SchemaFields}
         /\ \A k \in SchemaKeys : FieldValue(c, k) = Lookup(parsed.entries, k)
    ELSE /\ parsed.ok
         /\ c = parsed.entries

\* C11: a load call (LoadSOPSEnv, LoadSOPSConfig) returns, on each of its exit
\* paths, either a whole record and no error or no record and an error, never
\* both and never a record filled in part; no operation of the call is run a
\* second time after it failed.
C11_RecordXorError ==
    /\ []((prog \in {"env", "yaml"} /\ pc \notin LoadPcs) =>
            /\ config = Nil => (err # Nil /\ pc = "fatal" /\ AtMostOnce(calls))
            /\ err = Nil => config # Nil
            /\ config # Nil => Complete(config[1]))
    /\ []((prog \in {"env", "yaml"} /\ pc \in LoadPcs) =>
            config = Nil /\ err = Nil /\ AtMostOnce(calls))
    /\ [][(pc \in LoadPcs /\ pc' \notin LoadPcs) =>
            /\ (config' = Nil) # (err' = Nil)
            /\ (err' # Nil) <=> (pc' = "fatal")
            /\ AtMostOnce(calls')]_vars

C11_Witness ==
    /\ prog = "env" /\ pc = "fatal"
    /\ config = Nil /\ err # Nil
    /\ calls = <<"sops", "CreateTemp", "Write", "godotenv.Read: failed", "Remove">>

\* LoadSOPSEnv has returned
LoadSOPSEnvReturned == prog = "env" /\ pc \notin LoadPcs

\* C12: in every state after LoadSOPSEnv has returned, on whichever exit
\* path, no temp file created by the call exists.
C12_NoTempFileAfterReturn ==
    LoadSOPSEnvReturned => tmpFile = NoFile

\* the scanner of LoadSOPSEnvToSystem has a next line
AtLine ==
    prog = "env" /\ pc = "LoadSOPSEnvToSystem: Scan" /\ lineNo < Len(decryptedData)

ScanLine == decryptedData[lineNo + 1]

\* the turn of the loop skipped its line: nothing set, nothing reported, the
\* scanner goes on with the next line
Skipped ==
    /\ env' = env /\ err' = err /\ calls' = calls
    /\ pc' = pc /\ lineNo' = lineNo + 1

\* every well-formed line the scanner has passed has been applied
AppliedSoFar ==
    /\ Exported(file, lineNo)
    /\ Cardinality({j \in 1..Len(calls) : calls[j] = "Setenv"})
          = Cardinality({j \in 1..lineNo : WellFormed(file[j])})

\* C13 as stated: during the export a blank line, a line whose first
\* non-blank byte is "#" and a line without "=" are skipped silently, whatever
\* their length: they set no variable, they do not make LoadSOPSEnvToSystem
\* fail, and every well-formed line after them is still applied.
C13_SkippedLinesAreSilent ==
    /\ [][(AtLine /\ ~WellFormed(ScanLine)) => Skipped]_vars
    /\ []((prog = "env" /\ pc = "LoadSOPSEnvToSystem: Scan") => AppliedSoFar)

\* C13, amended: a blank line, a comment line and a line without "=" of fewer
\* than MaxScanTokenSize bytes are skipped silently and every well-formed
\* line after them is still applied; a line of MaxScanTokenSize bytes or
\* more, of whatever shape, sets nothing and ends LoadSOPSEnvToSystem with
\* the scanner's error.
C13_ShortSkippedLinesAreSilent ==
    /\ [][(AtLine /\ ~WellFormed(ScanLine) /\ ~TooLong(ScanLine)) => Skipped]_vars
    /\ [][(AtLine /\ TooLong(ScanLine)) =>
            /\ env' = env /\ calls' = calls
            /\ pc' = "fatal"
            /\ err' = Some(Error("", <<>>, "bufio.Scanner: token too long"))]_vars
    /\ []((prog = "env" /\ pc = "LoadSOPSEnvToSystem: Scan") => AppliedSoFar)

C13_Witness ==
    /\ ExportSucceeded
    /\ Len(file) = 2
    /\ file[1] = <<"#", " ">> \o DB_PORT \o <<"=", "1">>
    /\ WellFormed(file[2])
    /\ Getenv(env, DB_HOST) = <<"d", "b", "2">>
    /\ Getenv(env, DB_PORT) = <<>>

\* the entries of map m whose key is a schema name
SchemaEntries(m) == [k \in SchemaKeys \cap DOMAIN m |-> m[k]]

\* the record whose fields hold the entries of m, "" for a key m lacks
RecordOf(m) ==
    [f \in {SchemaFields[i][2] : i \in DOMAIN SchemaFields} |->
        LET k == SchemaFields[CHOOSE i \in DOMAIN SchemaFields : SchemaFields[i][2] = f][1]
        IN  IF k \in DOMAIN m THEN m[k] ELSE <<>>]

\* a well-formed line of the document whose key is not a schema name
Unrecognized(raw) == WellFormed(raw) /\ KeyOf(raw) \notin SchemaKeys

\* C14: a key that is not a schema name has no effect on the record
\* LoadSOPSEnv returns: the record is the one of the parsed entries without
\* that key; LoadSOPSEnvToSystem sets the variable of such a key to its
\* value all the same.
C14_UnrecognizedKeyExportedOnly ==
    prog = "env" =>
        /\ config # Nil => config[1] = RecordOf(SchemaEntries(parsed.entries))
        /\ ExportSucceeded =>
              \A i \in 1..Len(file) :
                  Unrecognized(file[i]) =>
                      LET k == KeyOf(file[i])
                      IN  /\ k \in DOMAIN env
                          /\ env[k] = ValueOf(file[LastLineFor(file, Len(file), k)])

C14_Witness ==
    /\ ExportSucceeded
    /\ EXTRA \in DOMAIN parsed.entries
    /\ DB_HOST \in DOMAIN parsed.entries
    /\ config[1] = RecordOf([k \in {DB_HOST} |-> localhost])
    /\ \E i \in 1..Len(file) : Unrecognized(file[i]) /\ KeyOf(file[i]) = EXTRA
    /\ Getenv(env, EXTRA) = <<"a", "=", "b">>

\* maskSecret has been applied to its own result: ret[1] is maskSecret(arg),
\* ret[2] is maskSecret(ret[1])
MaskedTwice == prog = "maskSecret" /\ pc = "done: twice"

\* C15 as stated: maskSecret(maskSecret(s)) = maskSecret(s) only when s has
\* the masked shape already (s = maskSecret(s)); for any other s the second
\* application does not give back maskSecret(s).
C15_IdempotentOnlyOnMasked ==
    MaskedTwice => ((ret[2] = ret[1]) <=> (arg = ret[1]))

\* C15, amended: maskSecret(maskSecret(s)) = maskSecret(s) for every string
\* s, whether or not s has the masked shape already.
C15_MaskIsIdempotent ==
    MaskedTwice => ret[2] = ret[1]

C15_Witness ==
    /\ MaskedTwice
    /\ arg = <<"a", "b", "a", "b", "b", "a">>
    /\ ret = << <<"a", "b", "*", "*", "b", "a">>, <<"a", "b", "*", "*", "b", "a">> >>

\* the values the decrypted document binds to its keys
DocValues ==
    IF prog = "env"
    THEN {ValueOf(file[i]) : i \in {j \in 1..Len(file) : WellFormed(file[j])}}
    ELSE {file[i].value : i \in 1..Len(file)}

\* C16: no error returned by LoadSOPSEnv, LoadSOPSConfig or
\* LoadSOPSEnvToSystem embeds a value of the decrypted document: its message
\* names the operation, the key and the cause, so that two documents that
\* differ in their values only fail with the same message.
C16_NoValueInError ==
    (prog \in {"env", "yaml"} /\ err # Nil) =>
        \A v \in DocValues \ {<<>>} :
            \A i \in 1..Len(err[1].quoted) : ~Contains(err[1].quoted[i], v)

\* the field of Config c that holds the scalar at path
IntField(c, path) ==
    CASE path = "storage.psql.port" -> c.Storage.PSQL.Port
      [] path = "storage.psql.pg_pool_max_conn" -> c.Storage.PSQL.PGPoolMaxConn
      [] path = "storage.redis.port" -> c.Storage.Redis.Port
      [] path = "storage.redis.db" -> c.Storage.Redis.DB

StringField(c, path) ==
    CASE path = "storage.psql.host" -> c.Storage.PSQL.Host
      [] path = "storage.psql.database" -> c.Storage.PSQL.Database
      [] path = "storage.psql.username" -> c.Storage.PSQL.Username
      [] path = "storage.psql.password" -> c.Storage.PSQL.Password
      [] path = "storage.redis.addr" -> c.Storage.Redis.Addr
      [] path = "storage.redis.username" -> c.Storage.Redis.Username
      [] path = "storage.redis.password" -> c.Storage.Redis.Password
      [] path = "jwt.auth" -> c.JWT.Auth

StringFields ==
    {"storage.psql.host", "storage.psql.database", "storage.psql.username",
     "storage.psql.password", "storage.redis.addr", "storage.redis.username",
     "storage.redis.password", "jwt.auth"}

\* LoadSOPSConfig has returned for a document of scalars that was decrypted
MappedYaml ==
    /\ prog = "yaml" /\ file # YamlDoc
    /\ pc \notin LoadPcs
    /\ calls[1] = "sops"

AppliedKeys == {KeyOf(file[j]) : j \in {i \in 1..lineNo : WellFormed(file[i])}}

\* table e is table e0 but for the variables named in keys: none removed,
\* none other changed, none other added
SameBut(e, e0, keys) ==
    /\ DOMAIN e0 \subseteq DOMAIN e
    /\ DOMAIN e \subseteq DOMAIN e0 \cup keys
    /\ \A n \in DOMAIN e0 \ keys : e[n] = e0[n]

\* C18: LoadSOPSEnvToSystem, whether it returns an error or not, changes only
\* the variables named by the lines it applied: every other variable keeps
\* the value it had before the call and no variable is removed; LoadSOPSEnv,
\* LoadSOPSConfig, PrintConfig and PrintSystemEnvVars leave the whole table
\* as it is.
C18_ExportFrame ==
    /\ [][pc # "LoadSOPSEnvToSystem: Scan" => env' = env]_vars
    /\ [][AtLine =>
            \/ env' = env
            \/ /\ WellFormed(ScanLine)
               /\ SameBut(env', env, {KeyOf(ScanLine)})]_vars
    /\ [](prog \in {"env", "yaml"} =>
            \E e0 \in EnvInits : SameBut(env, e0, AppliedKeys))

C18_Witness ==
    /\ prog = "env" /\ pc = "fatal"
    /\ calls[Len(calls)] = "Setenv: failed"
    /\ AppliedKeys = {DB_HOST}
    /\ Getenv(env, DB_HOST) = localhost
    /\ Getenv(env, JWT_SECRET) = <<"p", "r", "e", "v", "_", "j", "w", "t">>
    /\ Getenv(env, HOME) = <<"/", "r", "o", "o", "t">>

\* the next line of the scanner holds "=" and its key is empty once trimmed
AtEmptyKey ==
    /\ AtLine
    /\ ~TooLong(ScanLine)
    /\ WellFormed(ScanLine)
    /\ KeyOf(ScanLine) = <<>>

\* LoadSOPSEnvToSystem returned the error of os.Setenv for the empty name
EmptyKeyRejected ==
    /\ prog = "env" /\ pc = "fatal"
    /\ err = Some(Error("failed to set env var", <<>>, "EINVAL"))
    /\ calls # <<>> /\ calls[Len(calls)] = "Setenv: failed"

\* C19: a line that holds "=" and whose key is empty once trimmed ("=value",
\* "  = x") is not skipped: os.Setenv is called with the empty name, the host
\* rejects it, LoadSOPSEnvToSystem returns the error, and no line after it is
\* applied.
C19_EmptyKeyAborts ==
    /\ [][AtEmptyKey =>
            /\ calls' = Append(calls, "Setenv: failed")
            /\ env' = env /\ lineNo' = lineNo
            /\ EmptyKeyRejected']_vars
    /\ [][EmptyKeyRejected => UNCHANGED vars]_vars
    /\ [](EmptyKeyRejected =>
            /\ lineNo < Len(file)
            /\ WellFormed(file[lineNo + 1]) /\ KeyOf(file[lineNo + 1]) = <<>>
            /\ AppliedSoFar)

C19_Witness ==
    /\ EmptyKeyRejected
    /\ file = << <<" ", " ", "=", " ", "x">>, DB_HOST \o <<"=">> \o localhost >>
    /\ lineNo = 0
    /\ Getenv(env, DB_HOST) # localhost

\* main has ended for a document of plain lines KEY=VALUE, no key twice,
\* that both LoadSOPSEnv and LoadSOPSEnvToSystem took in
BothPathsDone ==
    /\ prog = "env" /\ pc = "done"
    /\ \A i \in 1..Len(file) : file[i] \in PlainPool
    /\ \A i, j \in 1..Len(file) : i # j => KeyOf(file[i]) # KeyOf(file[j])
    /\ parsed = Parsed(godotenv_Read(file))

DocKeys == {KeyOf(file[i]) : i \in 1..Len(file)}

IsStructuredDSN(l) == l.fn = "main: structured DSN"
IsSystemDSN(l) == l.fn = "main: system DSN"

\* the arguments of the two DSN lines as written
StructuredDSN == SelectSeq(out, IsStructuredDSN)
SystemDSN == SelectSeq(out, IsSystemDSN)

RecordAgreesWithEnv ==
    \A k \in SchemaKeys \cap DocKeys : FieldValue(config[1], k) = Getenv(env, k)

\* C20 as stated: for a document of plain lines KEY=VALUE with no key twice,
\* once LoadSOPSEnv and LoadSOPSEnvToSystem have both succeeded, the record
\* field of every schema key of the document equals the variable of that
\* name, so the two example DSN lines main writes are identical.
C20_PathsAgree ==
    BothPathsDone =>
        /\ RecordAgreesWithEnv
        /\ Len(StructuredDSN) = 5 /\ Len(SystemDSN) = 5
        /\ \A i \in 1..5 : StructuredDSN[i].text = SystemDSN[i].text

\* C20, amended: the record field of every schema key of the document equals
\* the variable of that name; the two DSN lines agree on each of DB_USER,
\* DB_PASSWORD, DB_HOST, DB_PORT, DB_NAME that is in the document or whose
\* variable is unset or empty, and differ on one that the document lacks
\* and the environment already held.
C20_PathsAgreeOnDocumentKeys ==
    BothPathsDone =>
        /\ RecordAgreesWithEnv
        /\ Len(StructuredDSN) = 5 /\ Len(SystemDSN) = 5
        /\ \A i \in 1..5 :
              /\ StructuredDSN[i].name = SystemDSN[i].name
              /\ (StructuredDSN[i].text = SystemDSN[i].text) <=>
                    \/ StructuredDSN[i].name \in DocKeys
                    \/ Getenv(env, StructuredDSN[i].name) = <<>>

C20_Witness ==
    /\ BothPathsDone
    /\ file = ReadmeDoc
    /\ HOME \in DOMAIN env
    /\ config[1].DBHost = localhost /\ Getenv(env, DB_HOST) = localhost
    /\ \A i \in 1..5 : StructuredDSN[i].text = SystemDSN[i].text

====
